---- MODULE Spec2Model ----
(***************************************************************************)
(* The dispatcher core of the kernel (xkernel_core): the shell, control    *)
(* and stdin listeners, the handler table, the request handlers, the       *)
(* reply and publication paths and the abort drain callback.               *)
(*                                                                         *)
(* Strings the code inspects character by character (msg_type) are         *)
(* sequences of one-character strings.  An optional JSON field is <<>>     *)
(* when absent and <<v>> when present with value v.                        *)
(***************************************************************************)
EXTENDS Integers, Sequences, FiniteSets, TLC

\* ------------------------------------------------------------ bounds
\* Calls made into the core while one dispatch is running: publisher and
\* stdin-sender upcalls, nested stdin deliveries, drained messages.
MaxNested == 2

\* ------------------------------------------------------------ strings
s_execute_request == <<"e", "x", "e", "c", "u", "t", "e", "_", "r", "e", "q", "u", "e", "s", "t">>
s_complete_request == <<"c", "o", "m", "p", "l", "e", "t", "e", "_", "r", "e", "q", "u", "e", "s", "t">>
s_inspect_request == <<"i", "n", "s", "p", "e", "c", "t", "_", "r", "e", "q", "u", "e", "s", "t">>
s_history_request == <<"h", "i", "s", "t", "o", "r", "y", "_", "r", "e", "q", "u", "e", "s", "t">>
s_is_complete_request == <<"i", "s", "_", "c", "o", "m", "p", "l", "e", "t", "e", "_", "r", "e", "q", "u", "e", "s", "t">>
s_comm_info_request == <<"c", "o", "m", "m", "_", "i", "n", "f", "o", "_", "r", "e", "q", "u", "e", "s", "t">>
s_comm_open == <<"c", "o", "m", "m", "_", "o", "p", "e", "n">>
s_comm_close == <<"c", "o", "m", "m", "_", "c", "l", "o", "s", "e">>
s_comm_msg == <<"c", "o", "m", "m", "_", "m", "s", "g">>
s_kernel_info_request == <<"k", "e", "r", "n", "e", "l", "_", "i", "n", "f", "o", "_", "r", "e", "q", "u", "e", "s", "t">>
s_shutdown_request == <<"s", "h", "u", "t", "d", "o", "w", "n", "_", "r", "e", "q", "u", "e", "s", "t">>
s_interrupt_request == <<"i", "n", "t", "e", "r", "r", "u", "p", "t", "_", "r", "e", "q", "u", "e", "s", "t">>
s_execute_reply == <<"e", "x", "e", "c", "u", "t", "e", "_", "r", "e", "p", "l", "y">>
s_complete_reply == <<"c", "o", "m", "p", "l", "e", "t", "e", "_", "r", "e", "p", "l", "y">>
s_inspect_reply == <<"i", "n", "s", "p", "e", "c", "t", "_", "r", "e", "p", "l", "y">>
s_history_reply == <<"h", "i", "s", "t", "o", "r", "y", "_", "r", "e", "p", "l", "y">>
s_is_complete_reply == <<"i", "s", "_", "c", "o", "m", "p", "l", "e", "t", "e", "_", "r", "e", "p", "l", "y">>
s_comm_info_reply == <<"c", "o", "m", "m", "_", "i", "n", "f", "o", "_", "r", "e", "p", "l", "y">>
s_kernel_info_reply == <<"k", "e", "r", "n", "e", "l", "_", "i", "n", "f", "o", "_", "r", "e", "p", "l", "y">>
s_shutdown_reply == <<"s", "h", "u", "t", "d", "o", "w", "n", "_", "r", "e", "p", "l", "y">>
s_interrupt_reply == <<"i", "n", "t", "e", "r", "r", "u", "p", "t", "_", "r", "e", "p", "l", "y">>
s_status == <<"s", "t", "a", "t", "u", "s">>
s_shutdown == <<"s", "h", "u", "t", "d", "o", "w", "n">>
s_stream == <<"s", "t", "r", "e", "a", "m">>
s_input_request == <<"i", "n", "p", "u", "t", "_", "r", "e", "q", "u", "e", "s", "t">>
s_input_reply == <<"i", "n", "p", "u", "t", "_", "r", "e", "p", "l", "y">>
s_debug_request == <<"d", "e", "b", "u", "g", "_", "r", "e", "q", "u", "e", "s", "t">>
s__reply == <<"_", "r", "e", "p", "l", "y">>

\* The empty std::string.
s_empty == <<>>

\* std::string::npos, the "no position" result of find_last_of; it is
\* greater than the size of every string.
npos == -1

\* std::string::find_last_of(ch): 0-based position of the last ch, or npos.
find_last_of(s, ch) ==
    LET hits == {i \in 1..Len(s) : s[i] = ch}
    IN IF hits = {} THEN npos
       ELSE (CHOOSE i \in hits : \A j \in hits : j <= i) - 1

\* std::string::replace(pos, len, str) throws std::out_of_range when
\* pos > size().
replace_throws(s, pos) == pos = npos \/ pos > Len(s)

\* std::string::replace(pos, len, str) for pos <= size(): the characters
\* [pos, pos + min(len, size() - pos)) are replaced by str.
replace(s, pos, len, str) ==
    LET n == IF len < Len(s) - pos THEN len ELSE Len(s) - pos
    IN SubSeq(s, 1, pos) \o str \o SubSeq(s, pos + n + 1, Len(s))

\* ------------------------------------------------------------ JSON
\* json.value(key, default) on an object: the field, or the default.
Value(field, default) == IF field = <<>> THEN default ELSE field[1]

OptBool == {<<>>, <<TRUE>>, <<FALSE>>}

\* xjson::object(): the empty object.
EmptyObject == [type |-> "object"]

\* xjson(): null.
Null == [type |-> "null"]

\* An object returned by the interpreter, with or without a status field.
ReplyObject(status) == [type |-> "object", status |-> status]

\* Request contents: the fields the handlers read.
NoContent ==
    [silent |-> <<>>, store_history |-> <<>>, stop_on_error |-> <<>>,
     restart |-> <<>>, target_name |-> <<>>, comm_id |-> <<>>]

\* The header of an inbound message; m_parent_header starts as the empty
\* object, written as the header with no msg_id and no msg_type.
EmptyHeader == [msg_id |-> 0, msg_type |-> <<>>]

\* channel::SHELL, channel::CONTROL
SHELL == "shell"
CONTROL == "control"

VARIABLES
    m_parent_id,      \* xkernel_core::m_parent_id
    m_parent_header,  \* xkernel_core::m_parent_header
    pc,               \* where the single thread is: in the transport's poll
                      \* loop ("poll"), inside an interpreter call
                      \* ("interp"), inside p_server->abort_queue
                      \* ("abort_queue"), back from a listener ("returned")
    frame,            \* locals of the running handler
    comms,            \* the comm registry: set of [comm_id, target_name]
    stopped,          \* p_server->stop() was called
    interp_threw,     \* the interpreter call of the running handler ended in
                      \* a std::exception
    trace             \* calls across the core's boundary made since the
                      \* transport invoked the current listener, in order

vars ==
    <<m_parent_id, m_parent_header, pc, frame, comms, stopped, interp_threw, trace>>

\* ------------------------------------------------------------ the boundary
\* One call across the core's boundary.  op names the callee:
\*   dispatch_shell, dispatch_control, dispatch_stdin, abort_request:
\*     the transport hands a wire message to the core;
\*   send_shell, send_control, send_stdin, publish, stop, abort_queue:
\*     the core calls p_server;
\*   interpreter.<operation>: the core calls p_interpreter.
\* by names the caller: "transport", "dispatch" (the dispatch function
\* itself), "handler" (a request handler), "abort_request", "interpreter"
\* (through a registered upcall), "comm_manager".
Event(op, msg_type, ids, parent, metadata, content) ==
    [op |-> op, by |-> "handler", msg_type |-> msg_type, ids |-> ids,
     parent |-> parent, metadata |-> metadata, content |-> content]

By(who, events) == [i \in 1..Len(events) |-> [events[i] EXCEPT !.by = who]]

\* The transport invokes a listener (or the drain callback) with a wire message.
Recv(listener, wire) ==
    [Event(listener, s_empty, wire.ids, wire.header, EmptyObject,
           [type |-> "wire", ok |-> wire.ok, content |-> wire.content])
     EXCEPT !.by = "transport"]

\* A call of p_server or p_interpreter that carries no message.
Call(op, content) == Event(op, s_empty, <<>>, EmptyHeader, EmptyObject, content)

\* Calls made into the core since the dispatch began, the first one excluded.
Nested(t) ==
    Cardinality({i \in 2..Len(t) : t[i].by \in {"transport", "interpreter"}})

\* ------------------------------------------------------------ the core
get_parent_id == m_parent_id

get_parent_header == m_parent_header

get_metadata == [type |-> "object", started |-> "iso8601_now"]

publish_message(msg_type, metadata, content) ==
    Event("publish", msg_type, <<>>, get_parent_header, metadata, content)

\* Mutant: the input request is built like a publication, without
\* identities, and goes to the iopub sink.
send_stdin_as_publication(msg_type, metadata, content) ==
    Event("publish", msg_type, <<>>, get_parent_header, metadata, content)

send_stdin(msg_type, metadata, content) ==
    Event("send_stdin", msg_type, get_parent_id, get_parent_header, metadata, content)

publish_status(status) ==
    publish_message(s_status, EmptyObject,
                    [type |-> "object", execution_state |-> status])

\* Mutant: the reply goes to the shell sink whatever the channel.
send_reply_to_shell_only(id_list, reply_type, parent_header, metadata, reply_content, c) ==
    Event("send_shell", reply_type, id_list, parent_header, metadata, reply_content)

\* send_reply with six parameters: the message goes to the sink of channel c.
send_reply_to(id_list, reply_type, parent_header, metadata, reply_content, c) ==
    Event(IF c = SHELL THEN "send_shell" ELSE "send_control",
          reply_type, id_list, parent_header, metadata, reply_content)

\* send_reply with four parameters: identities and parent from the
\* dispatcher's parent state.
send_reply(reply_type, metadata, reply_content, c) ==
    send_reply_to(get_parent_id, reply_type, get_parent_header,
                  metadata, reply_content, c)

\* Mutant: the catch block of the deserialization does not return.
deserialize_never_throws(wire) == FALSE

\* msg.deserialize(wire_msg, *p_auth) throws on a message it cannot decode.
deserialize_throws(wire) == ~wire.ok

\* The handler table built by the constructor.
m_handler ==
    {s_execute_request, s_complete_request, s_inspect_request,
     s_history_request, s_is_complete_request, s_comm_info_request,
     s_comm_open, s_comm_close, s_comm_msg, s_kernel_info_request,
     s_shutdown_request, s_interrupt_request}

nullptr == <<"nullptr">>

\* Mutant: a type missing from the table falls back to a handler.
get_handler_with_fallback(msg_type) ==
    IF msg_type \in m_handler THEN msg_type ELSE s_comm_info_request

get_handler(msg_type) == IF msg_type \in m_handler THEN msg_type ELSE nullptr

\* The handlers that call the interpreter.
CallsInterpreter ==
    {s_execute_request, s_complete_request, s_inspect_request,
     s_history_request, s_is_complete_request, s_kernel_info_request,
     s_interrupt_request}

NoFrame ==
    [handler |-> nullptr, c |-> SHELL, silent |-> FALSE,
     stop_on_error |-> FALSE, metadata |-> EmptyObject]

\* ------------------------------------------------------------ handlers
\* execute_request, up to the interpreter call: the locals it keeps.
execute_silent(content) == Value(content.silent, FALSE)

\* Mutant: store_history is passed on as received.
execute_store_history_as_received(content) ==
    Value(content.store_history, TRUE)

execute_store_history(content) ==
    Value(content.store_history, TRUE) /\ ~execute_silent(content)

execute_stop_on_error(content) == Value(content.stop_on_error, FALSE)

\* The interpreter call each handler makes.
interpreter_call(handler, request) ==
    IF handler = s_execute_request
    THEN Call("interpreter.execute_request",
              [type |-> "args",
               silent |-> execute_silent(request.content),
               store_history |-> execute_store_history(request.content)])
    ELSE Call(CASE handler = s_complete_request -> "interpreter.complete_request"
                [] handler = s_inspect_request -> "interpreter.inspect_request"
                [] handler = s_history_request -> "interpreter.history_request"
                [] handler = s_is_complete_request -> "interpreter.is_complete_request"
                [] handler = s_kernel_info_request -> "interpreter.kernel_info_request"
                [] handler = s_interrupt_request -> "interpreter.interrupt_request",
              [type |-> "args"])

handler_frame(handler, request, c) ==
    [handler |-> handler, c |-> c,
     silent |-> IF handler = s_execute_request
                THEN execute_silent(request.content) ELSE FALSE,
     stop_on_error |-> IF handler = s_execute_request
                       THEN execute_stop_on_error(request.content) ELSE FALSE,
     metadata |-> IF handler = s_execute_request THEN get_metadata ELSE EmptyObject]

\* reply.value("status", "error") throws on a reply that is not an object.
execute_status_throws(reply) == reply.type # "object"

execute_status(reply) == Value(reply.status, "error")

\* Mutant: the abort condition forgets the silent flag.
execute_aborts_when_silent(silent, status, stop_on_error) ==
    status = "error" /\ stop_on_error

\* The condition under which execute_request calls p_server->abort_queue.
execute_aborts(silent, status, stop_on_error) ==
    ~silent /\ status = "error" /\ stop_on_error

\* Mutant: abort_queue is called before the execute_reply is sent.
execute_request_aborts_first(reply, fr) ==
    IF execute_status_throws(reply) THEN <<>>
    ELSE (IF execute_aborts(fr.silent, execute_status(reply), fr.stop_on_error)
          THEN <<Call("abort_queue", [type |-> "args", timeout |-> 50])>>
          ELSE <<>>)
         \o <<send_reply(s_execute_reply, fr.metadata, reply, fr.c)>>

\* execute_request after the interpreter returned: the reply, then the
\* abort_queue call when the condition holds.
execute_request(reply, fr) ==
    IF execute_status_throws(reply) THEN <<>>
    ELSE <<send_reply(s_execute_reply, fr.metadata, reply, fr.c)>> \o
         IF execute_aborts(fr.silent, execute_status(reply), fr.stop_on_error)
         THEN <<Call("abort_queue", [type |-> "args", timeout |-> 50])>>
         ELSE <<>>

complete_request(reply, c) ==
    <<send_reply(s_complete_request, EmptyObject, reply, c)>>

inspect_request(reply, c) ==
    <<send_reply(s_inspect_reply, EmptyObject, reply, c)>>

history_request(reply, c) ==
    <<send_reply(s_history_reply, EmptyObject, reply, c)>>

is_complete_request(reply, c) ==
    <<send_reply(s_is_complete_reply, EmptyObject, reply, c)>>

kernel_info_request(reply, c) ==
    <<send_reply(s_kernel_info_reply, EmptyObject,
                 [type |-> "object",
                  status |-> IF reply.type = "object" THEN reply.status ELSE <<>>,
                  protocol_version |-> "get_protocol_version"],
                 c)>>

interrupt_request(c) ==
    <<send_reply(s_interrupt_reply, EmptyObject, EmptyObject, c)>>

\* The rest of a handler once its interpreter call has returned reply.
handler_return(fr, reply) ==
    CASE fr.handler = s_execute_request -> execute_request(reply, fr)
      [] fr.handler = s_complete_request -> complete_request(reply, fr.c)
      [] fr.handler = s_inspect_request -> inspect_request(reply, fr.c)
      [] fr.handler = s_history_request -> history_request(reply, fr.c)
      [] fr.handler = s_is_complete_request -> is_complete_request(reply, fr.c)
      [] fr.handler = s_kernel_info_request -> kernel_info_request(reply, fr.c)
      [] fr.handler = s_interrupt_request -> interrupt_request(fr.c)

\* Mutant: comm_info_request ignores the target_name filter.
comm_info_request_unfiltered(request, c) ==
    <<send_reply(s_comm_info_reply, EmptyObject,
                 [type |-> "object", comms |-> comms, status |-> "ok"], c)>>

comm_info_request(request, c) ==
    LET target_name == Value(request.content.target_name, "")
        listed == {s \in comms : target_name = "" \/ s.target_name = target_name}
    IN <<send_reply(s_comm_info_reply, EmptyObject,
                    [type |-> "object", comms |-> listed, status |-> "ok"], c)>>

\* Mutant: the transport is stopped after the reply instead of first.
shutdown_request_stops_last(request, c) ==
    LET reply == [type |-> "object",
                  restart |-> Value(request.content.restart, FALSE)]
    IN <<publish_message(s_shutdown, EmptyObject, reply),
         send_reply(s_shutdown_reply, EmptyObject, reply, c),
         Call("stop", [type |-> "args"])>>

shutdown_request(request, c) ==
    LET reply == [type |-> "object",
                  restart |-> Value(request.content.restart, FALSE)]
    IN <<Call("stop", [type |-> "args"]),
         publish_message(s_shutdown, EmptyObject, reply),
         send_reply(s_shutdown_reply, EmptyObject, reply, c)>>

\* ------------------------------------------------------------ comm registry
\* The targets the interpreter registered with the comm manager.
RegisteredTargets == {"t", "u"}

\* xcomm_manager::comm_open: an unregistered target gets a comm_close
\* publication; a registered one opens the session.
comm_open(request) ==
    LET comm_id == Value(request.content.comm_id, "")
        target_name == Value(request.content.target_name, "")
    IN IF target_name \in RegisteredTargets THEN <<>>
       ELSE <<publish_message(s_comm_close, EmptyObject,
                              [type |-> "object", comm_id |-> comm_id])>>

comm_open_registry(request) ==
    LET comm_id == Value(request.content.comm_id, "")
        target_name == Value(request.content.target_name, "")
    IN IF /\ target_name \in RegisteredTargets
          /\ \A s \in comms : s.comm_id # comm_id
       THEN comms \cup {[comm_id |-> comm_id, target_name |-> target_name]}
       ELSE comms

\* xcomm_manager::comm_close: the session, if any, leaves the registry.
comm_close_registry(request) ==
    {s \in comms : s.comm_id # Value(request.content.comm_id, "")}

\* Mutant: the comm handlers answer on the channel of the request.
handler_run_comm_replies(handler, request, c) ==
    CASE handler = s_comm_info_request -> comm_info_request(request, c)
      [] handler = s_shutdown_request -> shutdown_request(request, c)
      [] handler = s_comm_open ->
           By("comm_manager", comm_open(request))
           \o <<send_reply(handler, EmptyObject, EmptyObject, c)>>
      [] OTHER -> <<send_reply(handler, EmptyObject, EmptyObject, c)>>

\* A handler that makes no interpreter call, run to its end.
handler_run(handler, request, c) ==
    CASE handler = s_comm_info_request -> comm_info_request(request, c)
      [] handler = s_shutdown_request -> shutdown_request(request, c)
      [] handler = s_comm_open -> By("comm_manager", comm_open(request))
      [] OTHER -> <<>>

registry_after(handler, request) ==
    CASE handler = s_comm_open -> comm_open_registry(request)
      [] handler = s_comm_close -> comm_close_registry(request)
      [] OTHER -> comms

\* ------------------------------------------------------------ inputs
Senders ==
    {[ids |-> <<"A">>, msg_id |-> 1], [ids |-> <<"B", "A">>, msg_id |-> 2]}

Wire(sender, msg_type, content) ==
    [ok |-> TRUE, ids |-> sender.ids,
     header |-> [msg_id |-> sender.msg_id, msg_type |-> msg_type],
     content |-> content]

\* A wire message whose deserialization throws.
BadWire ==
    [ok |-> FALSE, ids |-> <<>>, header |-> EmptyHeader, content |-> NoContent]

Contents(msg_type) ==
    CASE msg_type = <<s_execute_request>> ->
           {[NoContent EXCEPT !.silent = a, !.store_history = b, !.stop_on_error = d] :
              a \in OptBool, b \in OptBool, d \in OptBool}
      [] msg_type = <<s_shutdown_request>> ->
           {[NoContent EXCEPT !.restart = a] : a \in OptBool}
      [] msg_type = <<s_comm_info_request>> ->
           {[NoContent EXCEPT !.target_name = a] : a \in {<<>>, <<"t">>}}
      [] msg_type = <<s_comm_open>> ->
           {[NoContent EXCEPT !.comm_id = <<"c1">>, !.target_name = a] :
              a \in {<<"t">>, <<"missing">>}}
      [] msg_type \in {<<s_comm_msg>>, <<s_comm_close>>} ->
           {[NoContent EXCEPT !.comm_id = <<"c1">>]}
      [] OTHER -> {NoContent}

\* Header msg_type values: the twelve handled types, an unhandled one, none.
MsgTypes == {<<t>> : t \in m_handler} \cup {<<s_debug_request>>, <<>>}

Wires ==
    {BadWire} \cup
    UNION {{Wire(s, t, k) : s \in Senders, k \in Contents(t)} : t \in MsgTypes}

\* The comm traffic of a front-end: two comm ids, two registered targets and
\* an unregistered one, and comm_info_request with every kind of filter.
CommIds == {<<"c1">>, <<"c2">>}

CommTargets == {<<"t">>, <<"u">>, <<"missing">>}

CommContents(msg_type) ==
    CASE msg_type = <<s_comm_info_request>> ->
           {[NoContent EXCEPT !.target_name = a] :
              a \in {<<>>, <<"">>, <<"t">>, <<"u">>}}
      [] msg_type = <<s_comm_open>> ->
           {[NoContent EXCEPT !.comm_id = i, !.target_name = a] :
              i \in CommIds, a \in CommTargets}
      [] OTHER -> {[NoContent EXCEPT !.comm_id = i] : i \in CommIds}

CommWires ==
    UNION {{Wire(s, t, k) : s \in Senders, k \in CommContents(t)} :
             t \in {<<s_comm_info_request>>, <<s_comm_open>>,
                    <<s_comm_msg>>, <<s_comm_close>>}}

\* Messages queued on the shell socket when abort_queue drains it.
DrainTypes ==
    {<<s_complete_request>>, <<s_is_complete_request>>, <<s_comm_open>>,
     <<s_interrupt_request>>, <<s_execute_request>>, <<>>}

DrainWires ==
    {BadWire} \cup {Wire(s, t, NoContent) : s \in Senders, t \in DrainTypes}

StdinWires == {BadWire} \cup {Wire(s, <<s_input_reply>>, NoContent) : s \in Senders}

\* What an interpreter operation may return.
Replies(handler) ==
    CASE handler = s_execute_request ->
           {Null, ReplyObject(<<>>), ReplyObject(<<"ok">>), ReplyObject(<<"error">>)}
      [] handler = s_interrupt_request -> {Null}
      [] OTHER -> {Null, ReplyObject(<<"ok">>)}

\* ------------------------------------------------------------ actions
\* The end of dispatch: publish_status("idle").
dispatch_leave == By("dispatch", <<publish_status("idle")>>)

Init ==
    /\ m_parent_id = <<>>
    /\ m_parent_header = EmptyHeader
    /\ pc = "poll"
    /\ frame = NoFrame
    /\ comms = {}
    /\ stopped = FALSE
    /\ interp_threw = FALSE
    /\ trace = <<>>

\* set_parent
set_parent(parent_id, parent_header) ==
    /\ m_parent_id' = parent_id
    /\ m_parent_header' = parent_header

\* dispatch: deserialize, set the parent, publish busy, run the handler (up
\* to its interpreter call, if it makes one), publish idle.
dispatch(wire, c) ==
    LET listener == IF c = SHELL THEN "dispatch_shell" ELSE "dispatch_control"
        msg_type == Value(wire.header.msg_type, s_empty)
        handler == get_handler(msg_type)
    IN /\ pc = "poll"
       /\ IF deserialize_throws(wire)
          THEN /\ trace' = <<Recv(listener, wire)>>
               /\ pc' = "returned"
               /\ UNCHANGED <<m_parent_id, m_parent_header, frame, comms, stopped>>
          ELSE /\ set_parent(wire.ids, wire.header)
               /\ comms' = registry_after(handler, wire)
               /\ stopped' = (handler = s_shutdown_request)
               /\ IF handler \in CallsInterpreter
                  THEN /\ pc' = "interp"
                       /\ frame' = handler_frame(handler, wire, c)
                       /\ trace' = <<Recv(listener, wire)>>
                                   \o By("dispatch", <<publish_status("busy")>>)'
                                   \o <<interpreter_call(handler, wire)>>
                  ELSE /\ pc' = "returned"
                       /\ frame' = NoFrame
                       /\ trace' = <<Recv(listener, wire)>>
                                   \o By("dispatch", <<publish_status("busy")>>)'
                                   \o handler_run(handler, wire, c)'
                                   \o dispatch_leave'
       /\ interp_threw' = FALSE

dispatch_shell(wire) == dispatch(wire, SHELL)

dispatch_control(wire) == dispatch(wire, CONTROL)

\* Mutant: dispatch_stdin treats the message as dispatch does: it records
\* the parent and publishes the busy and idle statuses.
dispatch_stdin_as_dispatch(wire) ==
    /\ IF deserialize_throws(wire)
       THEN UNCHANGED <<m_parent_id, m_parent_header>>
       ELSE set_parent(wire.ids, wire.header)
    /\ LET events ==
             IF deserialize_throws(wire)
             THEN <<Recv("dispatch_stdin", wire)>>
             ELSE <<Recv("dispatch_stdin", wire)>>
                  \o By("dispatch", <<publish_status("busy"),
                                      publish_status("idle")>>)'
       IN \/ /\ pc = "poll"
             /\ pc' = "returned"
             /\ trace' = events
          \/ /\ pc = "interp"
             /\ Nested(trace) < MaxNested
             /\ pc' = pc
             /\ trace' = trace \o events
    /\ UNCHANGED <<frame, comms, stopped>>
    /\ interp_threw' = interp_threw

\* Mutant: dispatch_stdin records the message as the parent.
dispatch_stdin_sets_parent(wire) ==
    /\ \/ /\ pc = "poll"
          /\ pc' = "returned"
          /\ trace' = <<Recv("dispatch_stdin", wire)>>
       \/ /\ pc = "interp"
          /\ Nested(trace) < MaxNested
          /\ pc' = pc
          /\ trace' = Append(trace, Recv("dispatch_stdin", wire))
    /\ IF deserialize_throws(wire)
       THEN UNCHANGED <<m_parent_id, m_parent_header>>
       ELSE set_parent(wire.ids, wire.header)
    /\ UNCHANGED <<frame, comms, stopped>>
    /\ interp_threw' = interp_threw

\* dispatch_stdin: deserialize, read msg_type, return.  The transport may
\* deliver it between dispatches or while the interpreter waits for input.
dispatch_stdin(wire) ==
    /\ \/ /\ pc = "poll"
          /\ pc' = "returned"
          /\ trace' = <<Recv("dispatch_stdin", wire)>>
       \/ /\ pc = "interp"
          /\ Nested(trace) < MaxNested
          /\ pc' = pc
          /\ trace' = Append(trace, Recv("dispatch_stdin", wire))
    /\ UNCHANGED <<m_parent_id, m_parent_header, frame, comms, stopped>>
    /\ interp_threw' = interp_threw

\* The interpreter publishes through the registered publisher.
InterpreterPublish ==
    /\ pc = "interp"
    /\ Nested(trace) < MaxNested
    /\ trace' = trace \o By("interpreter",
                   <<publish_message(s_stream, EmptyObject, EmptyObject)>>)
    /\ UNCHANGED <<m_parent_id, m_parent_header, pc, frame, comms, stopped>>
    /\ interp_threw' = interp_threw

\* The interpreter asks for input through the registered stdin sender.
InterpreterSendStdin ==
    /\ pc = "interp"
    /\ Nested(trace) < MaxNested
    /\ trace' = trace \o By("interpreter",
                   <<send_stdin(s_input_request, EmptyObject, EmptyObject)>>)
    /\ UNCHANGED <<m_parent_id, m_parent_header, pc, frame, comms, stopped>>
    /\ interp_threw' = interp_threw

\* The interpreter call returns: the handler runs to its end, and dispatch
\* publishes idle unless the handler is now inside abort_queue.
InterpreterReturn(reply) ==
    LET events == handler_return(frame, reply)
        aborting == events # <<>> /\ events[Len(events)].op = "abort_queue"
    IN /\ pc = "interp"
       /\ reply \in Replies(frame.handler)
       /\ IF aborting
          THEN /\ pc' = "abort_queue"
               /\ frame' = frame
               /\ trace' = trace \o events
          ELSE /\ pc' = "returned"
               /\ frame' = NoFrame
               /\ trace' = trace \o events
                           \o dispatch_leave
       /\ UNCHANGED <<m_parent_id, m_parent_header, comms, stopped>>
       /\ interp_threw' = FALSE

\* Mutant: the catch block fabricates an error reply for the request.
InterpreterThrow_replies ==
    /\ pc = "interp"
    /\ pc' = "returned"
    /\ frame' = NoFrame
    /\ trace' = trace
                \o <<send_reply(s_execute_reply, EmptyObject,
                                [type |-> "object", status |-> "error"], frame.c)>>
                \o By("dispatch", <<publish_status("idle")>>)
    /\ UNCHANGED <<m_parent_id, m_parent_header, comms, stopped>>
    /\ interp_threw' = TRUE

\* Mutant: the exception of a handler leaves dispatch before the idle status.
InterpreterThrow_propagates ==
    /\ pc = "interp"
    /\ pc' = "returned"
    /\ frame' = NoFrame
    /\ UNCHANGED <<m_parent_id, m_parent_header, comms, stopped, trace>>
    /\ interp_threw' = TRUE

\* The interpreter call throws a std::exception: execute_request catches it
\* itself, dispatch catches it for the other handlers; idle is published.
InterpreterThrow ==
    /\ pc = "interp"
    /\ pc' = "returned"
    /\ frame' = NoFrame
    /\ trace' = trace \o dispatch_leave
    /\ UNCHANGED <<m_parent_id, m_parent_header, comms, stopped>>
    /\ interp_threw' = TRUE

\* abort_request: msg_type.replace(msg_type.find_last_of('_'), 8, "_reply")
abort_reply_type(msg_type) ==
    replace(msg_type, find_last_of(msg_type, "_"), 8, s__reply)

abort_request_throws(msg) ==
    LET msg_type == Value(msg.header.msg_type, s_empty)
    IN replace_throws(msg_type, find_last_of(msg_type, "_"))

\* Mutant: the drain callback brackets its reply with a busy/idle pair.
abort_request_reply_with_status(msg) ==
    By("abort_request",
       <<publish_status("busy"),
         send_reply_to(msg.ids,
                       abort_reply_type(Value(msg.header.msg_type, s_empty)),
                       msg.header, EmptyObject,
                       [type |-> "object", status |-> "error"], SHELL),
         publish_status("idle")>>)

\* Mutant: the drain callback handles a queued interrupt_request at once.
abort_request_reply_interrupts(msg) ==
    LET msg_type == Value(msg.header.msg_type, s_empty)
        handle == msg_type = s_interrupt_request
    IN By("abort_request",
          (IF handle THEN <<interpreter_call(msg_type, msg)>> ELSE <<>>)
          \o <<send_reply_to(msg.ids, abort_reply_type(msg_type), msg.header,
                             EmptyObject,
                             IF handle THEN EmptyObject
                             ELSE [type |-> "object", status |-> "error"],
                             SHELL)>>)

\* abort_request, when nothing throws: the error reply on the shell channel.
abort_request_reply(msg) ==
    By("abort_request",
       <<send_reply_to(msg.ids,
                       abort_reply_type(Value(msg.header.msg_type, s_empty)),
                       msg.header, EmptyObject,
                       [type |-> "object", status |-> "error"], SHELL)>>)

\* Mutant: the drain callback records the drained message as the parent.
abort_request_sets_parent(wire) ==
    /\ pc = "abort_queue"
    /\ Nested(trace) < MaxNested
    /\ IF deserialize_throws(wire)
       THEN /\ trace' = Append(trace, Recv("abort_request", wire))
            /\ UNCHANGED <<pc, frame, m_parent_id, m_parent_header>>
       ELSE /\ set_parent(wire.ids, wire.header)
            /\ IF abort_request_throws(wire)
               THEN /\ trace' = Append(trace, Recv("abort_request", wire))
                                \o dispatch_leave'
                    /\ pc' = "returned"
                    /\ frame' = NoFrame
               ELSE /\ trace' = Append(trace, Recv("abort_request", wire))
                                \o abort_request_reply(wire)
                    /\ UNCHANGED <<pc, frame>>
    /\ UNCHANGED <<comms, stopped>>
    /\ interp_threw' = interp_threw

\* The transport, inside abort_queue, hands one queued shell message to the
\* drain callback.  An exception of the callback leaves abort_queue and is
\* caught by execute_request; dispatch then publishes idle.
abort_request(wire) ==
    /\ pc = "abort_queue"
    /\ Nested(trace) < MaxNested
    /\ IF deserialize_throws(wire)
       THEN /\ trace' = Append(trace, Recv("abort_request", wire))
            /\ UNCHANGED <<pc, frame>>
       ELSE IF abort_request_throws(wire)
       THEN /\ trace' = Append(trace, Recv("abort_request", wire))
                        \o dispatch_leave
            /\ pc' = "returned"
            /\ frame' = NoFrame
       ELSE /\ trace' = Append(trace, Recv("abort_request", wire))
                        \o abort_request_reply(wire)
            /\ UNCHANGED <<pc, frame>>
    /\ UNCHANGED <<m_parent_id, m_parent_header, comms, stopped>>
    /\ interp_threw' = interp_threw

\* abort_queue returns (queue empty or timeout): execute_request returns
\* and dispatch publishes idle.
AbortQueueReturn ==
    /\ pc = "abort_queue"
    /\ pc' = "returned"
    /\ frame' = NoFrame
    /\ trace' = trace \o dispatch_leave
    /\ UNCHANGED <<m_parent_id, m_parent_header, comms, stopped>>
    /\ interp_threw' = interp_threw

\* The listener has returned: the transport polls its sockets again, unless
\* it was stopped.
Poll ==
    /\ pc = "returned"
    /\ ~stopped
    /\ pc' = "poll"
    /\ trace' = <<>>
    /\ UNCHANGED <<m_parent_id, m_parent_header, frame, comms, stopped>>
    /\ interp_threw' = FALSE

Next ==
    \/ Poll
    \/ \E wire \in Wires : dispatch_shell(wire)
    \/ \E wire \in Wires : dispatch_control(wire)
    \/ \E wire \in StdinWires : dispatch_stdin(wire)
    \/ InterpreterPublish
    \/ InterpreterSendStdin
    \/ \E reply \in Replies(frame.handler) : InterpreterReturn(reply)
    \/ InterpreterThrow
    \/ \E wire \in DrainWires : abort_request(wire)
    \/ AbortQueueReturn

Spec == Init /\ [][Next]_vars

\* The core under comm traffic only.
NextComm ==
    \/ Poll
    \/ \E wire \in CommWires : dispatch_shell(wire)
    \/ \E wire \in CommWires : dispatch_control(wire)

SpecComm == Init /\ [][NextComm]_vars

\* ------------------------------------------------------------ properties
\* The listener callback under way (or just returned) is a dispatch of a
\* message that deserialized; trace[1] then holds its identities and header.
Dispatched(t) ==
    /\ t # <<>>
    /\ t[1].op \in {"dispatch_shell", "dispatch_control"}
    /\ t[1].content.ok

Status(e, state) ==
    e.msg_type = s_status /\ e.content.execution_state = state

IsReply(e) == e.op \in {"send_shell", "send_control"}

RequestType(t) == Value(t[1].parent.msg_type, s_empty)

\* The events a step adds to the trace.
Added ==
    IF pc = "poll" THEN trace'
    ELSE SubSeq(trace', Len(trace) + 1, Len(trace'))

\* C1: a dispatch of a message that deserialized publishes exactly one busy
\* status, first, and exactly one idle status, last, whatever the handler
\* does; both carry the message's header as parent_header.
C1_BusyIdle ==
    Dispatched(trace) =>
        LET busy == {i \in 1..Len(trace) : Status(trace[i], "busy")}
            idle == {i \in 1..Len(trace) : Status(trace[i], "idle")}
        IN /\ busy = {2}
           /\ idle = IF pc = "returned" THEN {Len(trace)} ELSE {}
           /\ \A b \in busy, i \in idle : b < i
           /\ \A i \in busy \cup idle :
                /\ trace[i].op = "publish"
                /\ trace[i].parent = trace[1].parent

\* C1 witness: the interpreter call of a complete_request threw; the
\* dispatch has returned with busy and idle published and no reply.
C1_Witness ==
    /\ pc = "returned"
    /\ Dispatched(trace)
    /\ Len(trace) = 4
    /\ Status(trace[2], "busy")
    /\ trace[3].op = "interpreter.complete_request"
    /\ Status(trace[4], "idle")

\* C2: every reply a handler sends while request M is processed carries M's
\* identities and M's header as parent_header, also when stdin messages were
\* dispatched while the handler ran.
C2_ReplyParent ==
    Dispatched(trace) =>
        \A i \in 1..Len(trace) :
            (trace[i].by = "handler" /\ IsReply(trace[i])) =>
                /\ trace[i].ids = trace[1].ids
                /\ trace[i].parent = trace[1].parent

\* C2 witness: a stdin message of another sender deserialized while the
\* handler ran, and the handler replied afterwards.
C2_Witness ==
    /\ Dispatched(trace)
    /\ \E i, j \in 1..Len(trace) :
          /\ i < j
          /\ trace[i].op = "dispatch_stdin"
          /\ trace[i].content.ok
          /\ trace[i].ids # trace[1].ids
          /\ trace[i].parent # trace[1].parent
          /\ trace[j].by = "handler"
          /\ IsReply(trace[j])

\* C3: a step in which dispatch_shell, dispatch_control or dispatch_stdin
\* receives a message that fails to deserialize does nothing else: no reply,
\* no publication, no interpreter call, and the parent, the registry and the
\* running handler are left as they were.
C3_DecodeFailureDropped ==
    [][(/\ Added # <<>>
        /\ Added[1].op \in {"dispatch_shell", "dispatch_control", "dispatch_stdin"}
        /\ ~Added[1].content.ok)
       => /\ Len(Added) = 1
          /\ m_parent_id' = m_parent_id
          /\ m_parent_header' = m_parent_header
          /\ UNCHANGED <<frame, comms, stopped>>]_vars

\* C3 witness: after an earlier request set the parent, a shell message
\* failed to deserialize and the listener returned.
C3_Witness ==
    /\ pc = "returned"
    /\ Len(trace) = 1
    /\ trace[1].op = "dispatch_shell"
    /\ ~trace[1].content.ok
    /\ m_parent_header # EmptyHeader

\* C4, within a dispatch: busy is the first publication and idle the last;
\* no other status is published, and nothing is published outside a dispatch.
C4_Bracket ==
    /\ pc = "poll" => trace = <<>>
    /\ \A i \in 1..Len(trace) :
          trace[i].op = "publish" =>
              /\ Dispatched(trace)
              /\ i >= 2
              /\ Status(trace[i], "busy") <=> i = 2
              /\ Status(trace[i], "idle") => (i = Len(trace) /\ pc = "returned")
              /\ (pc = "returned" /\ i = Len(trace)) => Status(trace[i], "idle")
              /\ trace[i].msg_type = s_status =>
                    (Status(trace[i], "busy") \/ Status(trace[i], "idle"))

\* C4, between dispatches: a busy status is published only by a step that
\* starts from the poll loop, and the poll loop is entered only from a
\* listener that returned, after the idle status of its dispatch.
C4_Step ==
    /\ (\E i \in 1..Len(Added) : Status(Added[i], "busy")) => pc = "poll"
    /\ (pc' = "poll" /\ pc # "poll") =>
          /\ pc = "returned"
          /\ Dispatched(trace) => Status(trace[Len(trace)], "idle")

\* C4: busy/idle pairs never nest or interleave: the idle status of a
\* request precedes the busy status of the next, and every publication made
\* while a handler runs lies between the busy and the idle of its request.
C4_Ordering == []C4_Bracket /\ [][C4_Step]_vars

\* C4 witness: the interpreter published while the handler ran, and the
\* dispatch has returned.
C4_Witness ==
    /\ pc = "returned"
    /\ Dispatched(trace)
    /\ \E i \in 3..(Len(trace) - 1) :
          trace[i].op = "publish" /\ trace[i].by = "interpreter"
    /\ Status(trace[Len(trace)], "idle")

\* The handling of an execute_request is past its reply.
ExecuteHandled ==
    /\ Dispatched(trace)
    /\ RequestType(trace) = s_execute_request
    /\ pc \in {"abort_queue", "returned"}

AbortCalls == {i \in 1..Len(trace) : trace[i].op = "abort_queue"}

ExecuteReplies ==
    {i \in 1..Len(trace) :
        /\ trace[i].by = "handler"
        /\ IsReply(trace[i])
        /\ trace[i].msg_type = s_execute_reply}

\* C5 as stated: abort_queue is called exactly when the request is not
\* silent, stop_on_error is true and the returned content has status "error".
C5_AbortIffStatusError ==
    ExecuteHandled =>
        LET request == trace[1].content.content
        IN (AbortCalls # {}) <=>
              /\ request.silent # <<TRUE>>
              /\ request.stop_on_error = <<TRUE>>
              /\ \E i \in ExecuteReplies : trace[i].content.status = <<"error">>

\* C5 amended: abort_queue is called (once, with timeout 50, right after the
\* execute_reply) exactly when the request is not silent, stop_on_error is
\* true and the returned object has status "error" or no status field.
C5_AbortIffErrorOrNoStatus ==
    ExecuteHandled =>
        LET request == trace[1].content.content
        IN /\ (AbortCalls # {}) <=>
                /\ request.silent # <<TRUE>>
                /\ request.stop_on_error = <<TRUE>>
                /\ \E i \in ExecuteReplies :
                      trace[i].content.status \in {<<"error">>, <<>>}
           /\ \A i \in AbortCalls :
                /\ AbortCalls = {i}
                /\ trace[i].content.timeout = 50
                /\ (i - 1) \in ExecuteReplies

\* C5 witness: abort_queue was called for a reply that has no status field.
C5_Witness ==
    /\ ExecuteHandled
    /\ pc = "abort_queue"
    /\ \E i \in ExecuteReplies : trace[i].content.status = <<>>
    /\ AbortCalls # {}

s__request == <<"_", "r", "e", "q", "u", "e", "s", "t">>

EndsWith(s, suffix) ==
    /\ Len(s) >= Len(suffix)
    /\ SubSeq(s, Len(s) - Len(suffix) + 1, Len(s)) = suffix

\* msg_type with its final "_request" replaced by "_reply".
RequestToReply(msg_type) ==
    IF EndsWith(msg_type, s__request)
    THEN SubSeq(msg_type, 1, Len(msg_type) - Len(s__request)) \o s__reply
    ELSE msg_type

\* C6 as stated: for every drained message that deserializes, the drain
\* callback sends exactly one reply, on the shell channel, with content
\* {status: "error"}, the drained message's identities and header, and its
\* msg_type with the final "_request" replaced by "_reply".
C6_DrainReply ==
    \A i \in 1..Len(trace) :
        (trace[i].op = "abort_request" /\ trace[i].content.ok) =>
            /\ i + 1 <= Len(trace)
            /\ trace[i + 1].by = "abort_request"
            /\ trace[i + 1].op = "send_shell"
            /\ trace[i + 1].content = [type |-> "object", status |-> "error"]
            /\ trace[i + 1].ids = trace[i].ids
            /\ trace[i + 1].parent = trace[i].parent
            /\ trace[i + 1].msg_type =
                  RequestToReply(Value(trace[i].parent.msg_type, s_empty))
            /\ (i + 2 <= Len(trace)) => trace[i + 2].by # "abort_request"

\* The reply type the protocol names for each request type that is replied to.
ReplyTypeOf(msg_type) ==
    CASE msg_type = s_execute_request -> s_execute_reply
      [] msg_type = s_complete_request -> s_complete_reply
      [] msg_type = s_inspect_request -> s_inspect_reply
      [] msg_type = s_history_request -> s_history_reply
      [] msg_type = s_is_complete_request -> s_is_complete_reply
      [] msg_type = s_comm_info_request -> s_comm_info_reply
      [] msg_type = s_kernel_info_request -> s_kernel_info_reply
      [] msg_type = s_shutdown_request -> s_shutdown_reply
      [] msg_type = s_interrupt_request -> s_interrupt_reply
      [] OTHER -> s_empty

\* C7 as stated: every reply a handler sends has the reply type named for
\* its request type, and no reply has a msg_type ending in "_request".
C7_ReplyTypes ==
    Dispatched(trace) =>
        \A i \in 1..Len(trace) :
            (trace[i].by = "handler" /\ IsReply(trace[i])) =>
                /\ trace[i].msg_type = ReplyTypeOf(RequestType(trace))
                /\ ~EndsWith(trace[i].msg_type, s__request)

\* C8: a handler's reply goes to the sink of the channel its request came
\* on, the drain callback's replies go to the shell sink, and a status
\* message goes only to the iopub sink.
C8_ReplyChannel ==
    Dispatched(trace) =>
        \A i \in 1..Len(trace) :
            /\ (trace[i].by = "handler" /\ IsReply(trace[i])) =>
                  trace[i].op = IF trace[1].op = "dispatch_shell"
                                THEN "send_shell" ELSE "send_control"
            /\ (trace[i].by = "abort_request" /\ IsReply(trace[i])) =>
                  trace[i].op = "send_shell"
            /\ trace[i].msg_type = s_status => trace[i].op = "publish"
            /\ trace[i].by = "dispatch" => trace[i].op = "publish"

\* C8 witness: a request received on the control channel was answered on
\* the control sink, between its busy and idle publications.
C8_Witness ==
    /\ pc = "returned"
    /\ Dispatched(trace)
    /\ trace[1].op = "dispatch_control"
    /\ \E i \in 1..Len(trace) :
          trace[i].by = "handler" /\ trace[i].op = "send_control"
    /\ trace[2].op = "publish"

\* C9: the interpreter's execute operation receives store_history = false
\* when the request is silent, and otherwise the request's store_history,
\* true when the request has none.
C9_StoreHistory ==
    Dispatched(trace) =>
        \A i \in 1..Len(trace) :
            trace[i].op = "interpreter.execute_request" =>
                LET request == trace[1].content.content
                IN trace[i].content.store_history =
                      IF request.silent = <<TRUE>> THEN FALSE
                      ELSE IF request.store_history = <<>> THEN TRUE
                      ELSE request.store_history[1]

\* C9 witness: a silent execute_request that asked for store_history = true
\* reached the interpreter with store_history = false.
C9_Witness ==
    /\ Dispatched(trace)
    /\ trace[1].content.content.silent = <<TRUE>>
    /\ trace[1].content.content.store_history = <<TRUE>>
    /\ \E i \in 1..Len(trace) :
          /\ trace[i].op = "interpreter.execute_request"
          /\ trace[i].content.store_history = FALSE

\* C10: the dispatch of a message that deserialized and whose msg_type is
\* not in the handler table publishes busy and idle and does nothing else:
\* no reply, no interpreter call, no stop, no abort_queue, registry unchanged.
C10_UnknownType ==
    [][(/\ pc = "poll"
        /\ Dispatched(trace')
        /\ RequestType(trace') \notin m_handler)
       => /\ Len(trace') = 3
          /\ Status(trace'[2], "busy")
          /\ Status(trace'[3], "idle")
          /\ pc' = "returned"
          /\ UNCHANGED <<comms, stopped, frame>>]_vars

\* C10 witness: a debug_request, which has no handler, was dispatched while
\* a comm was open.
C10_Witness ==
    /\ pc = "returned"
    /\ Dispatched(trace)
    /\ RequestType(trace) = s_debug_request
    /\ Len(trace) = 3
    /\ comms # {}

\* The replies a handler sent among the events e.
HandlerReplies(e) ==
    {i \in 1..Len(e) : e[i].by = "handler" /\ IsReply(e[i])}

\* C11: when the interpreter call of a handler ends in an exception, the
\* step publishes the idle status for the request and nothing else: no
\* reply, no abort_queue; the exception does not leave dispatch, the
\* listener returns and the next message can be taken.
C11_HandlerException ==
    [][(~interp_threw /\ interp_threw')
       => /\ pc = "interp"
          /\ HandlerReplies(Added) = {}
          /\ Len(Added) = 1
          /\ Status(Added[1], "idle")
          /\ Added[1].parent = trace[1].parent
          /\ pc' = "returned"
          /\ ~stopped'
          /\ UNCHANGED <<m_parent_id, m_parent_header, comms>>]_vars

\* C11 witness: the interpreter's execute call threw for a request that is
\* not silent and has stop_on_error; the dispatch returned with busy, the
\* interpreter call and idle, and no reply.
C11_Witness ==
    /\ pc = "returned"
    /\ Dispatched(trace)
    /\ RequestType(trace) = s_execute_request
    /\ trace[1].content.content.stop_on_error = <<TRUE>>
    /\ trace[1].content.content.silent # <<TRUE>>
    /\ Len(trace) = 4
    /\ trace[3].op = "interpreter.execute_request"
    /\ Status(trace[4], "idle")
    /\ interp_threw
    /\ ~stopped

\* C12: a shutdown_request is handled as: stop of the transport, then one
\* shutdown publication {restart: r}, then one shutdown_reply {restart: r}
\* on the request's channel, then the idle status; r is the request's
\* restart field, false when absent.
C12_ShutdownOrder ==
    (/\ pc = "returned"
     /\ Dispatched(trace)
     /\ RequestType(trace) = s_shutdown_request)
    => LET restart == trace[1].content.content.restart
           content == [type |-> "object",
                       restart |-> IF restart = <<>> THEN FALSE ELSE restart[1]]
       IN /\ Len(trace) = 6
          /\ Status(trace[2], "busy")
          /\ trace[3].op = "stop"
          /\ trace[4].op = "publish"
          /\ trace[4].msg_type = s_shutdown
          /\ trace[4].content = content
          /\ trace[5].op = IF trace[1].op = "dispatch_shell"
                           THEN "send_shell" ELSE "send_control"
          /\ trace[5].msg_type = s_shutdown_reply
          /\ trace[5].content = content
          /\ Status(trace[6], "idle")
          /\ stopped

\* C12 witness: a shutdown_request without restart field, received on the
\* control channel, was handled.
C12_Witness ==
    /\ pc = "returned"
    /\ Dispatched(trace)
    /\ trace[1].op = "dispatch_control"
    /\ RequestType(trace) = s_shutdown_request
    /\ trace[1].content.content.restart = <<>>
    /\ trace[5].content = [type |-> "object", restart |-> FALSE]

\* The boundary calls of t that carry an interrupt_reply.
InterruptReplies(t) ==
    {i \in 1..Len(t) : IsReply(t[i]) /\ t[i].msg_type = s_interrupt_reply}

InterruptCalls(t) ==
    {i \in 1..Len(t) : t[i].op = "interpreter.interrupt_request"}

\* C13 as stated: while an execute_request is handled, up to and including
\* its idle status, interpreter.interrupt is not invoked and no
\* interrupt_reply is sent.
C13_InterruptAfterIdle ==
    (Dispatched(trace) /\ RequestType(trace) = s_execute_request)
    => /\ InterruptCalls(trace) = {}
       /\ InterruptReplies(trace) = {}

\* C13, amended: while an execute_request is handled, interpreter.interrupt
\* is never invoked, and an interrupt_reply sent before the execute request's
\* idle status is the error reply of the abort drain to a queued
\* interrupt_request, sent after interpreter.execute has returned; the
\* interrupt handler runs only in the dispatch of its own message, which
\* begins after the previous dispatch has published idle and returned.
C13_InterruptNotDuringExecute ==
    /\ (Dispatched(trace) /\ RequestType(trace) = s_execute_request)
       => /\ InterruptCalls(trace) = {}
          /\ \A i \in InterruptReplies(trace) :
               /\ trace[i].by = "abort_request"
               /\ trace[i].content = [type |-> "object", status |-> "error"]
               /\ trace[i - 1].op = "abort_request"
               /\ Value(trace[i - 1].parent.msg_type, s_empty) = s_interrupt_request
               /\ \E j \in 1..(i - 1) : trace[j].op = "abort_queue"
               /\ pc \in {"abort_queue", "returned"}
    /\ InterruptCalls(trace) # {}
       => /\ Dispatched(trace)
          /\ RequestType(trace) = s_interrupt_request
          /\ InterruptCalls(trace) = {3}
          /\ \A i \in InterruptReplies(trace) :
               i > 3 /\ trace[i].by = "handler"

\* C13 witness: an execute dispatch has returned whose abort drain answered
\* a queued interrupt_request.
C13_Witness ==
    /\ pc = "returned"
    /\ Dispatched(trace)
    /\ RequestType(trace) = s_execute_request
    /\ InterruptReplies(trace) # {}
    /\ Status(trace[Len(trace)], "idle")

\* The step is dispatch_stdin receiving a message that deserializes.
StdinReceived ==
    /\ Added # <<>>
    /\ Added[1].op = "dispatch_stdin"
    /\ Added[1].content.ok

\* C14 as stated: dispatch_stdin, on a message that deserializes, records the
\* message's identities and header as parent_id and parent_header and
\* performs no handler dispatch.
C14_StdinRecordsParent ==
    [][StdinReceived
       => /\ m_parent_id' = Added[1].ids
          /\ m_parent_header' = Added[1].parent
          /\ Len(Added) = 1]_vars

\* C14, amended: dispatch_stdin, on a message that deserializes, leaves
\* parent_id and parent_header as they were and performs no handler dispatch:
\* no status, no reply, no interpreter call, no other change of state.
C14_StdinNoEffect ==
    [][StdinReceived
       => /\ Len(Added) = 1
          /\ UNCHANGED <<m_parent_id, m_parent_header, frame, comms, stopped>>
          /\ pc' = IF pc = "poll" THEN "returned" ELSE pc]_vars

\* C14 witness: dispatch_stdin has returned from a message that deserialized
\* and whose identities and header are not the recorded parent.
C14_Witness ==
    /\ pc = "returned"
    /\ Len(trace) = 1
    /\ trace[1].op = "dispatch_stdin"
    /\ trace[1].content.ok
    /\ trace[1].ids # m_parent_id
    /\ trace[1].parent # m_parent_header
    /\ m_parent_id # <<>>

\* The dispatch just returned handled a message of type t.
Handled(t) ==
    /\ pc = "returned"
    /\ Dispatched(trace)
    /\ RequestType(trace) = t

\* The registry entries of comm id.
Sessions(registry, id) == {s \in registry : s.comm_id = id}

\* The reply to a comm_info_request lists the registry, filtered by a
\* non-empty target_name, with status "ok".
CommInfoListing ==
    Handled(s_comm_info_request)
    => LET target_name == Value(trace[1].content.content.target_name, "")
       IN /\ Len(trace) = 4
          /\ IsReply(trace[3])
          /\ trace[3].msg_type = s_comm_info_reply
          /\ trace[3].content.status = "ok"
          /\ trace[3].content.comms =
               IF target_name = "" THEN comms
               ELSE {s \in comms : s.target_name = target_name}

\* What one dispatch does to the registry: comm_close removes the session of
\* its comm_id, comm_open with a registered target adds a session for an
\* unused comm_id, nothing else changes it.
CommRegistryStep ==
    \A id \in CommIds :
        LET request == trace'[1]
            type == RequestType(trace')
            mine == /\ pc = "poll"
                    /\ Dispatched(trace')
                    /\ request.content.content.comm_id = id
            target_name == Value(request.content.content.target_name, "")
        IN Sessions(comms', id[1]) =
             IF mine /\ type = s_comm_close THEN {}
             ELSE IF /\ mine
                     /\ type = s_comm_open
                     /\ target_name \in RegisteredTargets
                     /\ Sessions(comms, id[1]) = {}
             THEN {[comm_id |-> id[1], target_name |-> target_name]}
             ELSE Sessions(comms, id[1])

\* C15: after any sequence of comm_open, comm_msg and comm_close, the reply
\* to a comm_info_request lists exactly the comms in the registry (those of
\* the given target_name when it is non-empty) with status "ok"; the
\* registry holds the comms opened on a registered target and not closed
\* since.
C15_CommInfo == []CommInfoListing /\ [][CommRegistryStep]_vars

\* C15 witness: a comm_info_request filtered by target "t" was answered while
\* the registry held one comm of target "t" and one of target "u".
C15_Witness ==
    /\ Handled(s_comm_info_request)
    /\ trace[1].content.content.target_name = <<"t">>
    /\ {s.target_name : s \in comms} = {"t", "u"}
    /\ Cardinality(trace[3].content.comms) = 1

CommHandlers == {s_comm_open, s_comm_msg, s_comm_close}

\* A comm_open that names a target without registered handler.
UnregisteredOpen(t) ==
    /\ Dispatched(t)
    /\ RequestType(t) = s_comm_open
    /\ Value(t[1].content.content.target_name, "") \notin RegisteredTargets

\* What a returned dispatch of a comm message has done at the boundary.
CommSideEffectsOnly ==
    (pc = "returned" /\ Dispatched(trace) /\ RequestType(trace) \in CommHandlers)
    => /\ \A i \in 1..Len(trace) : ~IsReply(trace[i])
       /\ IF UnregisteredOpen(trace)
          THEN /\ Len(trace) = 4
               /\ trace[3].op = "publish"
               /\ trace[3].msg_type = s_comm_close
               /\ trace[3].content =
                    [type |-> "object",
                     comm_id |-> Value(trace[1].content.content.comm_id, "")]
          ELSE Len(trace) = 3

\* C16: dispatching comm_open, comm_msg or comm_close sends no reply on shell
\* or control; a comm_open for a target without registered handler makes one
\* comm_close publication for its comm_id and leaves the registry unchanged.
C16_CommNoReply ==
    /\ []CommSideEffectsOnly
    /\ [][(pc = "poll" /\ UnregisteredOpen(trace')) => comms' = comms]_vars

\* C16 witness: comm_open of c2 on the unregistered target "missing" was
\* dispatched while the registry held a comm.
C16_Witness ==
    /\ Handled(s_comm_open)
    /\ trace[1].content.content.comm_id = <<"c2">>
    /\ trace[1].content.content.target_name = <<"missing">>
    /\ trace[3].msg_type = s_comm_close
    /\ comms # {}

\* C17: every execute_reply sent by the core, by a handler or by the abort
\* drain, carries metadata with a started timestamp, and every reply of
\* another type carries an empty metadata object.
C17_ReplyMetadata ==
    \A i \in 1..Len(trace) :
        IsReply(trace[i])
        => IF trace[i].msg_type = s_execute_reply
           THEN "started" \in DOMAIN trace[i].metadata
           ELSE trace[i].metadata = EmptyObject

\* The replies sent by the drain callback.
DrainedReplies ==
    {i \in 1..Len(trace) : trace[i].by = "abort_request" /\ IsReply(trace[i])}

\* C18: when an execute_request triggers the abort protocol, its
\* execute_reply, carrying the interpreter's error content, is sent before
\* abort_queue is called, hence before every reply to a drained message, and
\* every drained reply precedes the idle status of the execute_request.
C18_AbortOrder ==
    /\ DrainedReplies # {} => (ExecuteHandled /\ AbortCalls # {})
    /\ (ExecuteHandled /\ AbortCalls # {})
       => /\ Cardinality(ExecuteReplies) = 1
          /\ \A r \in ExecuteReplies :
               /\ trace[r].content.status \in {<<"error">>, <<>>}
               /\ \A a \in AbortCalls :
                    /\ r < a
                    /\ \A d \in DrainedReplies : a < d
          /\ \A i \in 1..Len(trace) :
               Status(trace[i], "idle")
               => /\ pc = "returned"
                  /\ i = Len(trace)
                  /\ \A d \in DrainedReplies : d < i

\* C18 witness: an aborting execute_request has returned after two queued
\* messages were answered by the drain.
C18_Witness ==
    /\ ExecuteHandled
    /\ pc = "returned"
    /\ Cardinality(DrainedReplies) = 2
    /\ Status(trace[Len(trace)], "idle")

\* The step is a run of the drain callback.
Drained ==
    /\ pc = "abort_queue"
    /\ Added # <<>>
    /\ Added[1].op = "abort_request"

\* A run of the drain callback leaves the parent alone and publishes
\* nothing; a publication of that step is the dispatcher's, for the
\* execute_request.
DrainKeepsParent ==
    Drained
    => /\ UNCHANGED <<m_parent_id, m_parent_header>>
       /\ \A i \in 1..Len(Added) :
            Added[i].op = "publish"
            => /\ Added[i].by = "dispatch"
               /\ Added[i].parent = trace[1].parent

\* The idle status after an abort carries the execute_request's header.
IdleAfterAbort ==
    (ExecuteHandled /\ AbortCalls # {} /\ pc = "returned")
    => /\ Status(trace[Len(trace)], "idle")
       /\ trace[Len(trace)].parent = trace[1].parent
       /\ m_parent_header = trace[1].parent
       /\ m_parent_id = trace[1].ids

\* C19: the abort drain callback changes neither parent_id nor
\* parent_header and publishes nothing on iopub, so the idle status after an
\* aborting execute_request carries that request's header, whatever was
\* drained.
C19_DrainKeepsParent == []IdleAfterAbort /\ [][DrainKeepsParent]_vars

\* C19 witness: an aborting execute_request has returned after the drain
\* answered a message of another sender.
C19_Witness ==
    /\ ExecuteHandled
    /\ pc = "returned"
    /\ \E d \in DrainedReplies :
         /\ trace[d].parent.msg_id # trace[1].parent.msg_id
         /\ trace[d].ids # trace[1].ids
    /\ trace[Len(trace)].parent = trace[1].parent

\* The boundary call is the input request of the stdin-sender upcall.
InputRequest(e) == e.by = "interpreter" /\ e.msg_type = s_input_request

\* Input requests go to the stdin sink with the identities and the header of
\* the request being handled.
InputRequestAddressed ==
    \A i \in 1..Len(trace) :
        InputRequest(trace[i])
        => /\ Dispatched(trace)
           /\ trace[i].op = "send_stdin"
           /\ trace[i].ids = trace[1].ids
           /\ trace[i].parent = trace[1].parent

\* The stdin-sender upcall makes one boundary call and changes no state of
\* the dispatcher.
InputRequestStep ==
    (Added # <<>> /\ InputRequest(Added[1]))
    => /\ Len(Added) = 1
       /\ pc = "interp"
       /\ UNCHANGED <<m_parent_id, m_parent_header, pc, frame, comms, stopped>>

\* C20: an input request sent through the stdin-sender upcall while request
\* R is handled goes to the stdin sink only, with R's identities and R's
\* header as parent_header, and changes neither parent_id nor parent_header.
C20_StdinSender == []InputRequestAddressed /\ [][InputRequestStep]_vars

\* C20 witness: while a request was handled, a stdin message of another
\* sender was received and then an input request was sent.
C20_Witness ==
    /\ Dispatched(trace)
    /\ Len(trace) = 5
    /\ trace[4].op = "dispatch_stdin"
    /\ trace[4].content.ok
    /\ trace[4].ids # trace[1].ids
    /\ InputRequest(trace[5])
    /\ trace[5].ids = trace[1].ids

====
